---- MODULE Spec2Model ----
(***************************************************************************)
(* Model of src/clarity_evolve_through_interest.py: the regime classifier  *)
(* assess_market_regime, the scanner create_strategic_watchlist, the       *)
(* signal generator generate_trading_signals and the confidence filter of  *)
(* the button handler.                                                     *)
(*                                                                         *)
(* Numbers are fixed point, in hundredths: a VIX of 20.0 is 2000, a rate   *)
(* of 5.50 percent is 550, a differential of 1.0 is 100.  An optional      *)
(* value (Python's None) is a sequence of length at most one: <<>> is      *)
(* None, <<v>> is the value v.  A pair "USD/JPY" is the tuple              *)
(* <<"USD", "JPY">>, so that pair.split('/') is the tuple itself.          *)
(***************************************************************************)
EXTENDS Integers, Sequences, FiniteSets, TLC

VARIABLES
    pc,               \* position in the run
    vix_value,        \* optional VIX reading (hundredths)
    sp500_trend,      \* optional broad-market trend record
    market_regime,    \* "RISK-ON" | "RISK-OFF" | "NEUTRAL" | "Unknown"
    rates_dict,       \* currency -> rate (hundredths of a percent)
    price_lookup,     \* pair -> optional price record: the lookups' outcomes
    watchlist,        \* category -> sequence of entries
    raised,           \* TRUE when the scan ended by an exception
    trading_signals,  \* sequence of signals
    min_confidence,   \* the selected confidence threshold
    max_signals,      \* the selected display limit
    filtered_signals, \* the signals kept by the confidence filter
    shown_signals     \* the filtered signals cut to max_signals

vars == <<pc, vix_value, sp500_trend, market_regime, rates_dict, price_lookup,
          watchlist, raised, trading_signals, min_confidence, max_signals,
          filtered_signals, shown_signals>>

None == <<>>

Some(v) == <<v>>

Abs(x) == IF x < 0 THEN -x ELSE x

Min(a, b) == IF a < b THEN a ELSE b

SeqRange(s) == {s[i] : i \in 1..Len(s)}

(***************************************************************************)
(* Bounds of the model.                                                    *)
(***************************************************************************)
\* Rates range over 0, 0.25, ..., MaxRate * 0.25 percent.
MaxRate == 9

\* The currencies a rate map of the model may hold (a rate map is any
\* partial map on them); the other five currencies never have a rate.
RateCurrencies == {"USD", "JPY", "CHF"}

(***************************************************************************)
(* Program constants.                                                      *)
(***************************************************************************)
VALID_PAIRS ==
    << <<"EUR", "USD">>, <<"GBP", "USD">>, <<"USD", "JPY">>, <<"USD", "CHF">>,
       <<"AUD", "USD">>, <<"USD", "CAD">>, <<"NZD", "USD">>,
       <<"EUR", "GBP">>, <<"EUR", "JPY">>, <<"EUR", "CHF">>, <<"EUR", "AUD">>,
       <<"EUR", "CAD">>, <<"EUR", "NZD">>,
       <<"GBP", "JPY">>, <<"GBP", "CHF">>, <<"GBP", "AUD">>, <<"GBP", "CAD">>,
       <<"GBP", "NZD">>,
       <<"AUD", "JPY">>, <<"CAD", "JPY">>, <<"CHF", "JPY">>, <<"NZD", "JPY">>,
       <<"AUD", "CAD">>, <<"AUD", "CHF">>, <<"AUD", "NZD">>,
       <<"CAD", "CHF">>, <<"NZD", "CAD">>, <<"NZD", "CHF">> >>

\* The watchlist's keys, in the dict's insertion order.
Categories ==
    << "Primary Carry Trades", "Counter-Trend Opportunities",
       "Range Trading Candidates", "Avoid - High Risk" >>

Regimes == {"RISK-ON", "RISK-OFF", "NEUTRAL", "Unknown"}

\* st.sidebar.number_input(min_value=0.0, max_value=100.0): 100.00
VIX_MAX == 10000

(***************************************************************************)
(* assess_market_regime                                                    *)
(***************************************************************************)
assess_market_regime_no_trend_guard(vix, trend) ==
    IF vix = None
    THEN "Unknown"
    ELSE IF vix[1] < 2000 /\ (trend # None /\ trend[1].above_200ma)
    THEN "RISK-ON"
    ELSE IF vix[1] > 2500
    THEN "RISK-OFF"
    ELSE "NEUTRAL"

assess_market_regime_loose(vix, trend) ==
    IF vix = None \/ trend = None
    THEN "Unknown"
    ELSE IF vix[1] <= 2000 /\ trend[1].above_200ma
    THEN "RISK-ON"
    ELSE IF vix[1] >= 2500
    THEN "RISK-OFF"
    ELSE "NEUTRAL"

assess_market_regime(vix, trend) ==
    IF vix = None \/ trend = None
    THEN "Unknown"
    ELSE IF vix[1] < 2000 /\ trend[1].above_200ma
    THEN "RISK-ON"
    ELSE IF vix[1] > 2500
    THEN "RISK-OFF"
    ELSE "NEUTRAL"

(***************************************************************************)
(* create_strategic_watchlist                                              *)
(***************************************************************************)
EmptyWatchlist == [c \in SeqRange(Categories) |-> <<>>]

\* The outcomes of get_currency_price_data: None (no data, or any exception,
\* which its except clause turns into None) or a record with the trend.
PriceOutcomes == {None, Some([trend |-> "Bullish"]), Some([trend |-> "Bearish"])}

\* line 101: base in rates_dict and quote in rates_dict
BothRatesBaseOnly(pair, rates) == pair[1] \in DOMAIN rates

BothRates(pair, rates) == pair[1] \in DOMAIN rates /\ pair[2] \in DOMAIN rates

Entry(pair, diff, trend, direction, rationale, confidence) ==
    [pair |-> pair, diff |-> diff, price_trend |-> trend,
     direction |-> direction, rationale |-> rationale,
     confidence |-> confidence]

RiskOnEntriesAnyTrend(pair, diff, trend) ==
    IF diff > 100
    THEN << <<"Primary Carry Trades",
              Entry(pair, diff, trend, "LONG",
                    "Strong carry + bullish trend alignment", "High")>> >>
    ELSE IF diff < -100 /\ trend = "Bearish"
    THEN << <<"Counter-Trend Opportunities",
              Entry(pair, diff, trend, "SHORT",
                    "Negative carry + bearish trend", "Medium")>> >>
    ELSE <<>>

\* lines 109-127: the entries a pair adds under RISK-ON, as <<category, entry>>
RiskOnEntries(pair, diff, trend) ==
    IF diff > 100 /\ trend = "Bullish"
    THEN << <<"Primary Carry Trades",
              Entry(pair, diff, trend, "LONG",
                    "Strong carry + bullish trend alignment", "High")>> >>
    ELSE IF diff < -100 /\ trend = "Bearish"
    THEN << <<"Counter-Trend Opportunities",
              Entry(pair, diff, trend, "SHORT",
                    "Negative carry + bearish trend", "Medium")>> >>
    ELSE <<>>

RiskOffEntriesAnyTrend(pair, diff, trend) ==
    IF diff < -100
    THEN << <<"Counter-Trend Opportunities",
              Entry(pair, diff, trend, "LONG",
                    "Safe haven + bullish reversal potential", "Medium")>> >>
    ELSE IF diff > 200
    THEN << <<"Avoid - High Risk",
              Entry(pair, diff, trend, "AVOID",
                    "High carry trade unwinding risk", "Low")>> >>
    ELSE <<>>

\* lines 129-147: the entries a pair adds under RISK-OFF
RiskOffEntries(pair, diff, trend) ==
    IF diff < -100 /\ trend = "Bullish"
    THEN << <<"Counter-Trend Opportunities",
              Entry(pair, diff, trend, "LONG",
                    "Safe haven + bullish reversal potential", "Medium")>> >>
    ELSE IF diff > 200
    THEN << <<"Avoid - High Risk",
              Entry(pair, diff, trend, "AVOID",
                    "High carry trade unwinding risk", "Low")>> >>
    ELSE <<>>

\* lines 149-158: the range entry, whatever the regime
RangeEntriesSigned(pair, diff, trend) ==
    IF diff < 50
    THEN << <<"Range Trading Candidates",
              Entry(pair, diff, trend, "RANGE",
                    "Low carry influence, technical trading", "Medium")>> >>
    ELSE <<>>

RangeEntries(pair, diff, trend) ==
    IF Abs(diff) < 50
    THEN << <<"Range Trading Candidates",
              Entry(pair, diff, trend, "RANGE",
                    "Low carry influence, technical trading", "Medium")>> >>
    ELSE <<>>

PairEntriesRiskOnByDefault(pair, diff, trend, regime) ==
    (IF regime = "RISK-OFF" THEN RiskOffEntries(pair, diff, trend)
     ELSE RiskOnEntries(pair, diff, trend))
    \o RangeEntries(pair, diff, trend)

\* lines 109-158: what one pair with both rates appends, in order
PairEntries(pair, diff, trend, regime) ==
    (IF regime = "RISK-ON" THEN RiskOnEntries(pair, diff, trend)
     ELSE IF regime = "RISK-OFF" THEN RiskOffEntries(pair, diff, trend)
     ELSE <<>>)
    \o RangeEntries(pair, diff, trend)

RECURSIVE AppendAll(_, _)
AppendAll(wl, adds) ==
    IF adds = <<>>
    THEN wl
    ELSE AppendAll([wl EXCEPT ![adds[1][1]] = Append(@, adds[1][2])], Tail(adds))

\* lines 99-158: the loop over VALID_PAIRS from index i on.  The result is
\* [raised, wl]: raised when a subscript fails (a KeyError on rates_dict, or
\* a subscript of None), which ends the scan.
RECURSIVE ScanFrom(_, _, _, _, _)
ScanFrom(i, wl, rates, regime, lookup) ==
    IF i > Len(VALID_PAIRS)
    THEN [raised |-> FALSE, wl |-> wl]
    ELSE LET pair == VALID_PAIRS[i]
         IN  IF ~BothRates(pair, rates)
             THEN ScanFrom(i + 1, wl, rates, regime, lookup)
             ELSE IF pair[1] \notin DOMAIN rates \/ pair[2] \notin DOMAIN rates
             THEN [raised |-> TRUE, wl |-> wl]
             ELSE LET diff == rates[pair[1]] - rates[pair[2]]
                      price_data == lookup[pair]
                      price_trend == IF price_data # None
                                     THEN price_data[1].trend
                                     ELSE "Unknown"
                  IN  ScanFrom(i + 1,
                               AppendAll(wl, PairEntries(pair, diff, price_trend, regime)),
                               rates, regime, lookup)

\* line 162: key=lambda x: (x['confidence'] == 'High', abs(x['diff']))
\* Tuples compare lexicographically, False < True.
KeyLess(a, b) ==
    LET ha == (a.confidence = "High")
        hb == (b.confidence = "High")
    IN  \/ (~ha /\ hb)
        \/ (ha = hb /\ Abs(a.diff) < Abs(b.diff))

\* list.sort(reverse=True) is stable: x goes after every element whose key is
\* not less than its own, before the first element with a smaller key.
InsertDescUnstable(s, x) ==
    LET before == {j \in 1..Len(s) : KeyLess(x, s[j])}
        k == Cardinality(before)
    IN  SubSeq(s, 1, k) \o <<x>> \o SubSeq(s, k + 1, Len(s))

InsertDesc(s, x) ==
    LET before == {j \in 1..Len(s) : ~KeyLess(s[j], x)}
        k == Cardinality(before)
    IN  SubSeq(s, 1, k) \o <<x>> \o SubSeq(s, k + 1, Len(s))

RECURSIVE SortDescFrom(_, _)
SortDescFrom(done, rest) ==
    IF rest = <<>>
    THEN done
    ELSE SortDescFrom(InsertDesc(done, rest[1]), Tail(rest))

\* lines 161-162
SortCategory(entries) == SortDescFrom(<<>>, entries)

\* lines 88-164
create_strategic_watchlist(rates, regime, lookup) ==
    LET scan == ScanFrom(1, EmptyWatchlist, rates, regime, lookup)
    IN  IF scan.raised
        THEN scan
        ELSE [raised |-> FALSE,
              wl |-> [c \in SeqRange(Categories) |-> SortCategory(scan.wl[c])]]

(***************************************************************************)
(* generate_trading_signals                                                *)
(***************************************************************************)
\* line 177: f"{diff:.2f}%" of a differential held in hundredths
FormatDiff(diff) ==
    [negative |-> diff < 0, whole |-> Abs(diff) \div 100,
     cents |-> Abs(diff) % 100, suffix |-> "%"]

\* lines 184-195: the guidance keyed by category
Guidance(category) ==
    IF category = "Primary Carry Trades"
    THEN [Entry |-> "Buy pullback to 20-day EMA",
          Stop |-> "Below recent swing low",
          Target |-> "Previous resistance + 2R"]
    ELSE IF category = "Counter-Trend Opportunities"
    THEN [Entry |-> "Break of key level with volume",
          Stop |-> "Beyond consolidation range",
          Target |-> "Measured move + 1.5R"]
    ELSE [Entry |-> "Range boundaries with reversal confirmation",
          Stop |-> "Beyond range extremes",
          Target |-> "Opposite range boundary"]

\* lines 173-195
MakeSignal(category, pair_info) ==
    [Pair |-> pair_info.pair,
     Signal |-> pair_info.direction,
     Category |-> category,
     RateDiff |-> FormatDiff(pair_info.diff),
     PriceTrend |-> pair_info.price_trend,
     Confidence |-> pair_info.confidence,
     Rationale |-> pair_info.rationale,
     Entry |-> Guidance(category).Entry,
     Stop |-> Guidance(category).Stop,
     Target |-> Guidance(category).Target]

\* line 171: pairs[:3]
TopAll(pairs) == pairs

TopEntries(pairs) == SubSeq(pairs, 1, Min(3, Len(pairs)))

\* line 172: pair_info['direction'] != 'AVOID'
ActionableAlways(pair_info) == TRUE

Actionable(pair_info) == pair_info.direction # "AVOID"

RECURSIVE CategorySignals(_, _)
CategorySignals(category, pairs) ==
    IF pairs = <<>>
    THEN <<>>
    ELSE (IF Actionable(pairs[1])
          THEN <<MakeSignal(category, pairs[1])>>
          ELSE <<>>)
         \o CategorySignals(category, Tail(pairs))

RECURSIVE SignalsFrom(_, _)
SignalsFrom(j, wl) ==
    IF j > Len(Categories)
    THEN <<>>
    ELSE CategorySignals(Categories[j], TopEntries(wl[Categories[j]]))
         \o SignalsFrom(j + 1, wl)

\* lines 166-199; market_regime is a parameter the function never reads
generate_trading_signals(wl, regime) == SignalsFrom(1, wl)

(***************************************************************************)
(* The confidence filter of the button handler                             *)
(***************************************************************************)
Confidences == {"High", "Medium", "Low"}

\* line 316
confidence_map(c) ==
    CASE c = "High" -> 3
      [] c = "Medium" -> 2
      [] c = "Low" -> 1

\* lines 317-319
KeepsExact(s, min_conf) == confidence_map(s.Confidence) = confidence_map(min_conf)

Keeps(s, min_conf) == confidence_map(s.Confidence) >= confidence_map(min_conf)

RECURSIVE filter_by_confidence(_, _)
filter_by_confidence(signals, min_conf) ==
    IF signals = <<>>
    THEN <<>>
    ELSE (IF Keeps(signals[1], min_conf) THEN <<signals[1]>> ELSE <<>>)
         \o filter_by_confidence(Tail(signals), min_conf)

\* line 320: filtered_signals[:max_signals]
Truncate(signals, n) == SubSeq(signals, 1, Min(n, Len(signals)))

\* line 268: st.slider("Max Signals to Show", 5, 20, 10)
MAX_SIGNALS_LOW == 5

MAX_SIGNALS_HIGH == 20

(***************************************************************************)
(* Bounds of the input-driven specifications.                              *)
(***************************************************************************)
\* SpecGen: the total number of entries of a watchlist handed to the generator
MaxEntries == 4

\* SpecFilter: the length of a signal list handed to the filter
MaxSignals == 6

(***************************************************************************)
(* State not used by a specification keeps these values.                   *)
(***************************************************************************)
NotAssessed == "-"

NoRates == << >>

RegimeIdle ==
    /\ vix_value = None
    /\ sp500_trend = None

ScanIdle ==
    /\ rates_dict = NoRates
    /\ price_lookup = << >>
    /\ raised = FALSE

FilterIdle ==
    /\ min_confidence = "-"
    /\ max_signals = 0
    /\ filtered_signals = <<>>
    /\ shown_signals = <<>>

(***************************************************************************)
(* SpecRegime: assess_market_regime on every reading and trend.            *)
(***************************************************************************)
\* get_sp500_trend returns None or a record whose trend follows above_200ma
TrendInputs ==
    {None,
     Some([trend |-> "Bullish", above_200ma |-> TRUE]),
     Some([trend |-> "Bearish", above_200ma |-> FALSE])}

VixInputs == {None} \cup {Some(v) : v \in 0..VIX_MAX}

InitRegime ==
    /\ pc = "start"
    /\ vix_value \in VixInputs
    /\ sp500_trend \in TrendInputs
    /\ market_regime = NotAssessed
    /\ ScanIdle
    /\ watchlist = EmptyWatchlist
    /\ trading_signals = <<>>
    /\ FilterIdle

\* line 231: market_regime = assess_market_regime(vix_value, sp500_data)
Assess ==
    /\ pc = "start"
    /\ market_regime' = assess_market_regime(vix_value, sp500_trend)
    /\ pc' = "assessed"
    /\ UNCHANGED <<vix_value, sp500_trend, rates_dict, price_lookup, watchlist,
                   raised, trading_signals, min_confidence, max_signals,
                   filtered_signals, shown_signals>>

NextRegime == Assess

SpecRegime == InitRegime /\ [][NextRegime]_vars

(***************************************************************************)
(* Spec: the scan of a rate map under a regime, then the generation of the *)
(* signals from the scanned watchlist (lines 294-295).                     *)
(***************************************************************************)
RateValues == {k * 25 : k \in 0..MaxRate}

RateMaps ==
    UNION {[keys -> RateValues] : keys \in SUBSET RateCurrencies}

\* The pairs whose price is looked up (line 106 runs under line 101's guard)
LookedUp(rates) == {p \in SeqRange(VALID_PAIRS) : BothRates(p, rates)}

Init ==
    /\ pc = "start"
    /\ RegimeIdle
    /\ market_regime \in Regimes
    /\ rates_dict \in RateMaps
    /\ price_lookup = << >>
    /\ raised = FALSE
    /\ watchlist = EmptyWatchlist
    /\ trading_signals = <<>>
    /\ FilterIdle

\* line 294: watchlist = create_strategic_watchlist(rates_dict, market_regime)
Scan ==
    /\ pc = "start"
    /\ \E lookup \in [LookedUp(rates_dict) -> PriceOutcomes] :
         LET result == create_strategic_watchlist(rates_dict, market_regime, lookup)
         IN  /\ price_lookup' = lookup
             /\ raised' = result.raised
             /\ watchlist' = result.wl
    /\ pc' = "scanned"
    /\ UNCHANGED <<vix_value, sp500_trend, market_regime, rates_dict,
                   trading_signals, min_confidence, max_signals,
                   filtered_signals, shown_signals>>

\* line 295: trading_signals = generate_trading_signals(watchlist, market_regime)
Generate ==
    /\ pc = "scanned"
    /\ ~raised
    /\ trading_signals' = generate_trading_signals(watchlist, market_regime)
    /\ pc' = "generated"
    /\ UNCHANGED <<vix_value, sp500_trend, market_regime, rates_dict,
                   price_lookup, watchlist, raised, min_confidence, max_signals,
                   filtered_signals, shown_signals>>

Next == Scan \/ Generate

Spec == Init /\ [][Next]_vars

(***************************************************************************)
(* SpecGen: generate_trading_signals on any watchlist of at most           *)
(* MaxEntries entries; the k-th entry overall names the k-th pair of the   *)
(* universe, so that the entries of a watchlist are distinct.              *)
(***************************************************************************)
Directions == {"LONG", "RANGE", "AVOID"}

DirectionConfidence(d) ==
    CASE d = "LONG" -> "High"
      [] d = "RANGE" -> "Medium"
      [] d = "AVOID" -> "Low"

RECURSIVE SumTo(_, _)
SumTo(lens, j) == IF j = 0 THEN 0 ELSE lens[j] + SumTo(lens, j - 1)

InputWatchlist(lens, dirs) ==
    [c \in SeqRange(Categories) |->
        LET j == CHOOSE n \in 1..Len(Categories) : Categories[n] = c
            off == SumTo(lens, j - 1)
        IN  [i \in 1..lens[j] |->
                Entry(VALID_PAIRS[off + i], 0, "Unknown", dirs[off + i],
                      "", DirectionConfidence(dirs[off + i]))]]

InitGen ==
    /\ pc = "scanned"
    /\ RegimeIdle
    /\ market_regime \in Regimes
    /\ ScanIdle
    /\ \E lens \in [1..Len(Categories) -> 0..MaxEntries] :
         /\ SumTo(lens, Len(Categories)) <= MaxEntries
         /\ \E dirs \in [1..SumTo(lens, Len(Categories)) -> Directions] :
              watchlist = InputWatchlist(lens, dirs)
    /\ trading_signals = <<>>
    /\ FilterIdle

NextGen == Generate

SpecGen == InitGen /\ [][NextGen]_vars

(***************************************************************************)
(* SpecFilter: the confidence filter and the display cut (lines 316-320)   *)
(* on any signal list of at most MaxSignals signals; the i-th signal names *)
(* the i-th pair of the universe.                                          *)
(***************************************************************************)
InputSignal(i, conf) ==
    MakeSignal("Range Trading Candidates",
               Entry(VALID_PAIRS[i], 0, "Unknown", "RANGE", "", conf))

InitFilter ==
    /\ pc = "generated"
    /\ RegimeIdle
    /\ market_regime = NotAssessed
    /\ ScanIdle
    /\ watchlist = EmptyWatchlist
    /\ \E n \in 0..MaxSignals :
         \E confs \in [1..n -> Confidences] :
            trading_signals = [i \in 1..n |-> InputSignal(i, confs[i])]
    /\ FilterIdle

\* lines 314-320, under the selections of lines 266 and 268
Filter ==
    /\ pc = "generated"
    /\ trading_signals # <<>>
    /\ \E conf \in Confidences, n \in MAX_SIGNALS_LOW..MAX_SIGNALS_HIGH :
         /\ min_confidence' = conf
         /\ max_signals' = n
         /\ filtered_signals' = filter_by_confidence(trading_signals, conf)
         /\ shown_signals' =
                Truncate(filter_by_confidence(trading_signals, conf), n)
    /\ pc' = "filtered"
    /\ UNCHANGED <<vix_value, sp500_trend, market_regime, rates_dict,
                   price_lookup, watchlist, raised, trading_signals>>

NextFilter == Filter

SpecFilter == InitFilter /\ [][NextFilter]_vars

(***************************************************************************)
(* What the claims speak of.                                               *)
(***************************************************************************)
Universe == SeqRange(VALID_PAIRS)

UniverseIndex(p) == CHOOSE i \in 1..Len(VALID_PAIRS) : VALID_PAIRS[i] = p

Scanned == pc \in {"scanned", "generated"}

HasBoth(p) == p[1] \in DOMAIN rates_dict /\ p[2] \in DOMAIN rates_dict

DiffAt(p) == rates_dict[p[1]] - rates_dict[p[2]]

\* The outcome of the pair's lookup: "Bullish", "Bearish", or "Unknown" when
\* the lookup failed.
TrendAt(p) ==
    IF p \in DOMAIN price_lookup /\ price_lookup[p] # None
    THEN price_lookup[p][1].trend
    ELSE "Unknown"

LookupFailed(p) == p \in DOMAIN price_lookup /\ price_lookup[p] = None

EntriesOf(category, p) ==
    {i \in 1..Len(watchlist[category]) : watchlist[category][i].pair = p}

AllEntries ==
    UNION {SeqRange(watchlist[c]) : c \in SeqRange(Categories)}

SignalsOfPair(p) ==
    {i \in 1..Len(trading_signals) : trading_signals[i].Pair = p}

RECURSIVE IsSubseq(_, _)
IsSubseq(a, b) ==
    IF a = <<>> THEN TRUE
    ELSE IF b = <<>> THEN FALSE
    ELSE IF a[1] = b[1] THEN IsSubseq(Tail(a), Tail(b))
    ELSE IsSubseq(a, Tail(b))

(***************************************************************************)
(* C1: for every known VIX reading v and every supplied trend, the regime  *)
(* is RISK-OFF when v > 25.0, NEUTRAL when 20.0 <= v <= 25.0, and for      *)
(* v < 20.0 RISK-ON when the trend is above its average, else NEUTRAL.     *)
(***************************************************************************)
C1_StrictThresholds ==
    (pc = "assessed" /\ vix_value # None /\ sp500_trend # None) =>
        LET v == vix_value[1]
            above == sp500_trend[1].above_200ma
        IN  /\ v > 2500 => market_regime = "RISK-OFF"
            /\ (2000 <= v /\ v <= 2500) => market_regime = "NEUTRAL"
            /\ (v < 2000 /\ above) => market_regime = "RISK-ON"
            /\ (v < 2000 /\ ~above) => market_regime = "NEUTRAL"

C1_Witness ==
    /\ pc = "assessed"
    /\ vix_value = Some(2000)
    /\ sp500_trend # None
    /\ sp500_trend[1].above_200ma
    /\ market_regime = "NEUTRAL"

(***************************************************************************)
(* C2 as stated: the regime is Unknown exactly when the VIX reading is     *)
(* unknown, whatever the trend input, an absent one included.              *)
(***************************************************************************)
C2_UnknownIffNoVix ==
    pc = "assessed" => (market_regime = "Unknown" <=> vix_value = None)

(***************************************************************************)
(* C2 amended: the regime is Unknown exactly when the VIX reading is       *)
(* unknown or the trend is absent; with both known it is one of RISK-ON,   *)
(* RISK-OFF, NEUTRAL, and RISK-OFF when the reading is above 25.0.         *)
(***************************************************************************)
C2_UnknownIffMissingInput ==
    pc = "assessed" =>
        /\ market_regime = "Unknown" <=> (vix_value = None \/ sp500_trend = None)
        /\ (vix_value # None /\ sp500_trend # None) =>
              /\ market_regime \in {"RISK-ON", "RISK-OFF", "NEUTRAL"}
              /\ vix_value[1] > 2500 => market_regime = "RISK-OFF"

C2_Witness ==
    /\ pc = "assessed"
    /\ vix_value # None
    /\ vix_value[1] > 2500
    /\ sp500_trend = None
    /\ market_regime = "Unknown"

(***************************************************************************)
(* C3: the scan never raises, and every entry of every category names a    *)
(* pair of VALID_PAIRS whose base and quote both have a rate; a pair       *)
(* missing a leg's rate has no entry in any category.                      *)
(***************************************************************************)
C3_OnlyRatedUniversePairs ==
    Scanned =>
        /\ ~raised
        /\ \A e \in AllEntries : e.pair \in Universe /\ HasBoth(e.pair)
        /\ \A p \in Universe :
              ~HasBoth(p) =>
                  \A c \in SeqRange(Categories) : EntriesOf(c, p) = {}

C3_Witness ==
    /\ pc = "scanned"
    /\ ~raised
    /\ DOMAIN rates_dict = {"USD", "JPY"}
    /\ EntriesOf("Range Trading Candidates", <<"USD", "JPY">>) # {}
    /\ LookupFailed(<<"USD", "JPY">>)
    /\ \A c \in SeqRange(Categories) : EntriesOf(c, <<"USD", "CHF">>) = {}

(***************************************************************************)
(* C4: under RISK-ON the Primary category holds exactly the universe pairs *)
(* with both rates, a differential above 1.0 and a Bullish trend, each     *)
(* with direction LONG and confidence High.                                *)
(***************************************************************************)
C4_RiskOnPrimary ==
    (Scanned /\ market_regime = "RISK-ON") =>
        /\ \A p \in Universe :
              EntriesOf("Primary Carry Trades", p) # {}
                  <=> (HasBoth(p) /\ DiffAt(p) > 100 /\ TrendAt(p) = "Bullish")
        /\ \A e \in SeqRange(watchlist["Primary Carry Trades"]) :
              /\ e.pair \in Universe
              /\ e.direction = "LONG"
              /\ e.confidence = "High"

C4_Witness ==
    /\ Scanned
    /\ market_regime = "RISK-ON"
    /\ \E i \in EntriesOf("Primary Carry Trades", <<"USD", "JPY">>) :
          /\ watchlist["Primary Carry Trades"][i].direction = "LONG"
          /\ watchlist["Primary Carry Trades"][i].confidence = "High"
    /\ HasBoth(<<"USD", "CHF">>)
    /\ DiffAt(<<"USD", "CHF">>) > 100
    /\ TrendAt(<<"USD", "CHF">>) # "Bullish"
    /\ EntriesOf("Primary Carry Trades", <<"USD", "CHF">>) = {}

(***************************************************************************)
(* C5: under RISK-OFF every universe pair with both rates and a            *)
(* differential above 2.0 is in the Avoid category with direction AVOID    *)
(* and confidence Low, whatever its lookup gave, and no signal generated   *)
(* from that watchlist names it.                                           *)
(***************************************************************************)
C5_RiskOffAvoid ==
    (Scanned /\ market_regime = "RISK-OFF") =>
        \A p \in Universe :
            (HasBoth(p) /\ DiffAt(p) > 200) =>
                /\ \E i \in EntriesOf("Avoid - High Risk", p) :
                      /\ watchlist["Avoid - High Risk"][i].direction = "AVOID"
                      /\ watchlist["Avoid - High Risk"][i].confidence = "Low"
                /\ pc = "generated" => SignalsOfPair(p) = {}

C5_Witness ==
    /\ pc = "generated"
    /\ market_regime = "RISK-OFF"
    /\ HasBoth(<<"USD", "CHF">>)
    /\ DiffAt(<<"USD", "CHF">>) > 200
    /\ TrendAt(<<"USD", "CHF">>) = "Bullish"
    /\ EntriesOf("Avoid - High Risk", <<"USD", "CHF">>) # {}
    /\ SignalsOfPair(<<"USD", "CHF">>) = {}
    /\ trading_signals # <<>>

(***************************************************************************)
(* C6: under every regime and every lookup outcome, a universe pair with   *)
(* both rates is in the Range category, with direction RANGE and           *)
(* confidence Medium, if and only if abs(diff) < 0.5.                      *)
(***************************************************************************)
C6_RangeIffSmallDiff ==
    Scanned =>
        /\ \A p \in Universe :
              HasBoth(p) =>
                  (EntriesOf("Range Trading Candidates", p) # {}
                      <=> Abs(DiffAt(p)) < 50)
        /\ \A e \in SeqRange(watchlist["Range Trading Candidates"]) :
              e.direction = "RANGE" /\ e.confidence = "Medium"

C6_Witness ==
    /\ Scanned
    /\ market_regime = "RISK-OFF"
    /\ HasBoth(<<"USD", "JPY">>)
    /\ DiffAt(<<"USD", "JPY">>) = -25
    /\ LookupFailed(<<"USD", "JPY">>)
    /\ EntriesOf("Range Trading Candidates", <<"USD", "JPY">>) # {}
    /\ HasBoth(<<"USD", "CHF">>)
    /\ DiffAt(<<"USD", "CHF">>) = -50
    /\ EntriesOf("Range Trading Candidates", <<"USD", "CHF">>) = {}

(***************************************************************************)
(* C7 as stated: under RISK-OFF a universe pair with both rates, a         *)
(* differential below -1.0 and a trend that is not Bullish is in the       *)
(* Primary category with confidence High and direction SHORT if diff > 0   *)
(* else LONG.                                                              *)
(***************************************************************************)
C7_RiskOffSafeHavenPrimary ==
    (Scanned /\ market_regime = "RISK-OFF") =>
        \A p \in Universe :
            (HasBoth(p) /\ DiffAt(p) < -100 /\ TrendAt(p) # "Bullish") =>
                \E i \in EntriesOf("Primary Carry Trades", p) :
                    /\ watchlist["Primary Carry Trades"][i].confidence = "High"
                    /\ watchlist["Primary Carry Trades"][i].direction =
                          (IF DiffAt(p) > 0 THEN "SHORT" ELSE "LONG")

(***************************************************************************)
(* C7 amended: under RISK-OFF a universe pair with both rates, a           *)
(* differential below -1.0 and a trend that is not Bullish has no entry in *)
(* any category, and the Primary category is empty.                        *)
(***************************************************************************)
C7_RiskOffNoSafeHavenRule ==
    (Scanned /\ market_regime = "RISK-OFF") =>
        /\ watchlist["Primary Carry Trades"] = <<>>
        /\ \A p \in Universe :
              (HasBoth(p) /\ DiffAt(p) < -100 /\ TrendAt(p) # "Bullish") =>
                  \A c \in SeqRange(Categories) : EntriesOf(c, p) = {}

C7_Witness ==
    /\ Scanned
    /\ market_regime = "RISK-OFF"
    /\ HasBoth(<<"CHF", "JPY">>)
    /\ DiffAt(<<"CHF", "JPY">>) < -100
    /\ TrendAt(<<"CHF", "JPY">>) = "Bearish"
    /\ \A c \in SeqRange(Categories) : EntriesOf(c, <<"CHF", "JPY">>) = {}
    /\ HasBoth(<<"USD", "JPY">>)
    /\ DiffAt(<<"USD", "JPY">>) < -100
    /\ TrendAt(<<"USD", "JPY">>) = "Bullish"
    /\ EntriesOf("Counter-Trend Opportunities", <<"USD", "JPY">>) # {}

(***************************************************************************)
(* C8: for every watchlist the generator emits at most 3 signals per       *)
(* category, and the signals of a category come from the category's first  *)
(* 3 entries, in the order of the watchlist.                               *)
(***************************************************************************)
CategorySignalPairs(c) ==
    LET sigs == SelectSeq(trading_signals, LAMBDA s : s.Category = c)
    IN  [i \in 1..Len(sigs) |-> sigs[i].Pair]

LeadingPairs(c) ==
    [i \in 1..Min(3, Len(watchlist[c])) |-> watchlist[c][i].pair]

C8_PerCategoryCap ==
    pc = "generated" =>
        \A c \in SeqRange(Categories) :
            /\ Len(CategorySignalPairs(c)) <= 3
            /\ IsSubseq(CategorySignalPairs(c), LeadingPairs(c))

C8_Witness ==
    /\ pc = "generated"
    /\ Len(watchlist["Primary Carry Trades"]) = 4
    /\ watchlist["Primary Carry Trades"][1].direction = "AVOID"
    /\ \A i \in 2..4 : watchlist["Primary Carry Trades"][i].direction = "LONG"
    /\ Len(trading_signals) = 2

C10_SortedStable ==
    Scanned =>
        \A c \in SeqRange(Categories) :
            \A i, j \in 1..Len(watchlist[c]) :
                i < j =>
                    LET a == watchlist[c][i]
                        b == watchlist[c][j]
                        ta == confidence_map(a.confidence)
                        tb == confidence_map(b.confidence)
                    IN  /\ ta >= tb
                        /\ ta = tb => Abs(a.diff) >= Abs(b.diff)
                        /\ (ta = tb /\ Abs(a.diff) = Abs(b.diff)) =>
                              UniverseIndex(a.pair) < UniverseIndex(b.pair)

C10_Witness ==
    /\ Scanned
    /\ LET r == watchlist["Range Trading Candidates"]
       IN  /\ Len(r) = 3
           /\ Abs(r[1].diff) = Abs(r[2].diff)
           /\ Abs(r[2].diff) > Abs(r[3].diff)
           /\ UniverseIndex(r[1].pair) < UniverseIndex(r[2].pair)
           /\ UniverseIndex(r[3].pair) < UniverseIndex(r[1].pair)

(***************************************************************************)
(* C11: under NEUTRAL or Unknown the Primary, Counter-Trend and Avoid      *)
(* categories of the scanned watchlist are empty, so every signal          *)
(* generated from it has direction RANGE and confidence Medium; under any  *)
(* regime a High-confidence signal arises only under RISK-ON, in the       *)
(* Primary category, with direction LONG.                                  *)
(***************************************************************************)
C11_NoRegimeRulesOutsideRiskOnOff ==
    /\ (Scanned /\ market_regime \in {"NEUTRAL", "Unknown"}) =>
          /\ watchlist["Primary Carry Trades"] = <<>>
          /\ watchlist["Counter-Trend Opportunities"] = <<>>
          /\ watchlist["Avoid - High Risk"] = <<>>
          /\ pc = "generated" =>
                \A i \in 1..Len(trading_signals) :
                    /\ trading_signals[i].Signal = "RANGE"
                    /\ trading_signals[i].Confidence = "Medium"
    /\ pc = "generated" =>
          \A i \in 1..Len(trading_signals) :
              trading_signals[i].Confidence = "High" =>
                  /\ market_regime = "RISK-ON"
                  /\ trading_signals[i].Category = "Primary Carry Trades"
                  /\ trading_signals[i].Signal = "LONG"

C11_Witness ==
    /\ pc = "generated"
    /\ market_regime = "NEUTRAL"
    /\ HasBoth(<<"USD", "JPY">>)
    /\ DiffAt(<<"USD", "JPY">>) > 200
    /\ TrendAt(<<"USD", "JPY">>) = "Bullish"
    /\ HasBoth(<<"CHF", "JPY">>)
    /\ DiffAt(<<"CHF", "JPY">>) > 100
    /\ LookupFailed(<<"CHF", "JPY">>)
    /\ SignalsOfPair(<<"USD", "JPY">>) = {}
    /\ Len(trading_signals) = 1
    /\ trading_signals[1].Pair = <<"USD", "CHF">>
    /\ trading_signals[1].Signal = "RANGE"

====
